---- MODULE Spec2Model ----
(***************************************************************************)
(* The three passes of gsh-property-map over the two files they share:     *)
(*   scrape_and_geocode.js  scrapes the site and writes properties.json    *)
(*   the corrective pass    reads properties.json, re-geocodes missing or  *)
(*                          suspicious records, writes                     *)
(*                          properties_final.json                          *)
(*   add_zipcodes.js        reads and rewrites properties_final.json       *)
(* JavaScript values are tagged records, strings are TLA+ strings handled  *)
(* character by character, and coordinates are fixed-point numbers in      *)
(* hundredths of a degree.                                                 *)
(***************************************************************************)
EXTENDS Integers, Sequences, FiniteSets, TLC

(***************************************************************************)
(* JavaScript values                                                       *)
(***************************************************************************)
Null == [t |-> "null", n |-> 0, s |-> ""]
Undefined == [t |-> "undefined", n |-> 0, s |-> ""]
NaN == [t |-> "nan", n |-> 0, s |-> ""]
Num(x) == [t |-> "num", n |-> x, s |-> ""]
Str(x) == [t |-> "str", n |-> 0, s |-> x]

\* ToBoolean: null, undefined, NaN, 0 and "" are falsy.
Truthy(v) ==
    CASE v.t = "num" -> v.n # 0
      [] v.t = "str" -> v.s # ""
      [] OTHER -> FALSE

\* JSON.stringify followed by JSON.parse of one field value: NaN is written
\* as null, an undefined field is omitted and reads back as undefined.
JsonValue(v) == IF v.t = "nan" THEN Null ELSE v

(***************************************************************************)
(* String primitives (String.prototype.includes, endsWith, replace with a  *)
(* string pattern, split(sep)[1])                                          *)
(***************************************************************************)
StartsAt(s, sub, i) ==
    /\ i >= 1
    /\ i + Len(sub) - 1 <= Len(s)
    /\ SubSeq(s, i, i + Len(sub) - 1) = sub

RECURSIVE IndexFrom(_, _, _)
IndexFrom(s, sub, i) ==
    IF i + Len(sub) - 1 > Len(s) THEN 0
    ELSE IF StartsAt(s, sub, i) THEN i
    ELSE IndexFrom(s, sub, i + 1)

\* 1-based index of the first occurrence, 0 when there is none.
IndexOf(s, sub) == IndexFrom(s, sub, 1)

Includes(s, sub) == IndexOf(s, sub) # 0

EndsWith(s, sub) ==
    /\ Len(sub) <= Len(s)
    /\ SubSeq(s, Len(s) - Len(sub) + 1, Len(s)) = sub

\* s.replace(sub, rep) with a string pattern: the first occurrence only.
ReplaceFirst(s, sub, rep) ==
    LET k == IndexOf(s, sub)
    IN  IF k = 0 THEN s
        ELSE SubSeq(s, 1, k - 1) \o rep \o SubSeq(s, k + Len(sub), Len(s))

\* s.split(sep)[1]: the text between the first and the second separator.
SplitSecond(s, sep) ==
    LET k == IndexOf(s, sep)
        rest == SubSeq(s, k + Len(sep), Len(s))
        j == IndexOf(rest, sep)
    IN  IF k = 0 THEN Undefined
        ELSE IF j = 0 THEN Str(rest)
        ELSE Str(SubSeq(rest, 1, j - 1))

IsDigit(c) == c \in {"0", "1", "2", "3", "4", "5", "6", "7", "8", "9"}

DigitVal(c) ==
    CASE c = "0" -> 0 [] c = "1" -> 1 [] c = "2" -> 2 [] c = "3" -> 3
      [] c = "4" -> 4 [] c = "5" -> 5 [] c = "6" -> 6 [] c = "7" -> 7
      [] c = "8" -> 8 [] c = "9" -> 9

CharAt(s, i) == IF i >= 1 /\ i <= Len(s) THEN SubSeq(s, i, i) ELSE ""

\* Number of digits of s starting at position i.
RECURSIVE DigitRun(_, _)
DigitRun(s, i) == IF IsDigit(CharAt(s, i)) THEN 1 + DigitRun(s, i + 1) ELSE 0

\* Value of the decimal digits s[i .. i+n-1].
RECURSIVE DigitsValue(_, _, _)
DigitsValue(s, i, n) ==
    IF n = 0 THEN 0
    ELSE 10 * DigitsValue(s, i, n - 1) + DigitVal(CharAt(s, i + n - 1))

(***************************************************************************)
(* parseFloat on the service's lat/lon strings, in hundredths of a degree: *)
(* optional sign, digits, optional fraction (two digits kept); a string    *)
(* that starts with no number gives NaN.                                   *)
(***************************************************************************)
parseFloat(s) ==
    LET signed == CharAt(s, 1) \in {"-", "+"}
        p1 == IF signed THEN 2 ELSE 1
        nInt == DigitRun(s, p1)
        hasDot == CharAt(s, p1 + nInt) = "."
        nFrac == IF hasDot THEN DigitRun(s, p1 + nInt + 1) ELSE 0
        d1 == IF nFrac >= 1 THEN DigitVal(CharAt(s, p1 + nInt + 1)) ELSE 0
        d2 == IF nFrac >= 2 THEN DigitVal(CharAt(s, p1 + nInt + 2)) ELSE 0
        mag == 100 * DigitsValue(s, p1, nInt) + 10 * d1 + d2
    IN  IF nInt = 0 /\ nFrac = 0 THEN NaN
        ELSE Num(IF CharAt(s, 1) = "-" THEN 0 - mag ELSE mag)

(***************************************************************************)
(* scrape_and_geocode.js: text helpers of the per-property loop            *)
(***************************************************************************)
\* outputAddress.replace(/&#\d+;/g, "")
RECURSIVE StripEntitiesFrom(_, _)
StripEntitiesFrom(s, i) ==
    IF i > Len(s) THEN ""
    ELSE LET n == DigitRun(s, i + 2)
         IN  IF StartsAt(s, "&#", i) /\ n >= 1 /\ CharAt(s, i + 2 + n) = ";"
             THEN StripEntitiesFrom(s, i + n + 3)
             ELSE CharAt(s, i) \o StripEntitiesFrom(s, i + 1)

StripEntities(s) == StripEntitiesFrom(s, 1)

Upper == {"A", "B", "C", "D", "E", "F", "G", "H", "I", "J", "K", "L", "M",
          "N", "O", "P", "Q", "R", "S", "T", "U", "V", "W", "X", "Y", "Z"}
Lower == {"a", "b", "c", "d", "e", "f", "g", "h", "i", "j", "k", "l", "m",
          "n", "o", "p", "q", "r", "s", "t", "u", "v", "w", "x", "y", "z"}

\* Character classes of the description pattern: \d, \s and [\w\s].
InClass(cls, c) ==
    CASE cls = "d" -> IsDigit(c)
      [] cls = "s" -> c = " "
      [] cls = "ws" -> IsDigit(c) \/ c \in Upper \/ c \in Lower \/ c = "_" \/ c = " "

RECURSIVE ClassRun(_, _, _)
ClassRun(s, i, cls) ==
    IF InClass(cls, CharAt(s, i)) THEN 1 + ClassRun(s, i + 1, cls) ELSE 0

\* The pieces of /\d+\s+[\w\s]+,\s+[\w\s]+,\s+[A-Z]{2}/ in order.
AddrPattern == <<"d", "s", "ws", ",", "s", "ws", ",", "s", "AZ2">>

\* Backtracking match of the pattern from piece st at position i: the index
\* of the last character matched, or 0. Greedy pieces try the longest run
\* first and give characters back one at a time.
RECURSIVE MatchPiece(_, _, _)
RECURSIVE TryLen(_, _, _, _)
MatchPiece(s, i, st) ==
    LET piece == AddrPattern[st]
    IN  CASE piece = "," ->
               IF CharAt(s, i) = "," THEN MatchPiece(s, i + 1, st + 1) ELSE 0
          [] piece = "AZ2" ->
               IF CharAt(s, i) \in Upper /\ CharAt(s, i + 1) \in Upper
               THEN i + 1 ELSE 0
          [] OTHER -> TryLen(s, i, st, ClassRun(s, i, piece))

TryLen(s, i, st, len) ==
    IF len = 0 THEN 0
    ELSE LET r == MatchPiece(s, i + len, st + 1)
         IN  IF r # 0 THEN r ELSE TryLen(s, i, st, len - 1)

\* description.match(pattern): the leftmost match, addrMatch[0], or null.
RECURSIVE AddrMatchFrom(_, _)
AddrMatchFrom(s, i) ==
    IF i > Len(s) THEN Null
    ELSE LET e == MatchPiece(s, i, 1)
         IN  IF e # 0 THEN Str(SubSeq(s, i, e)) ELSE AddrMatchFrom(s, i + 1)

AddrMatch(description) == AddrMatchFrom(description, 1)

(***************************************************************************)
(* Corrective pass: STATE_MAP and the expansion loop of geocodeAddress     *)
(***************************************************************************)
\* Object.entries(STATE_MAP), in insertion order.
STATE_MAP ==
    << <<"MI", "Michigan">>, <<"IN", "Indiana">>, <<"OH", "Ohio">>,
       <<"FL", "Florida">>, <<"MA", "Massachusetts">>, <<"MD", "Maryland">>,
       <<"USA", "USA">> >>

\* for (const [abbr, full] of entries) if (query.endsWith(` ${abbr}`)) {
\*     query = query.replace(` ${abbr}`, ` ${full}`); break; }
RECURSIVE ExpandFrom(_, _)
ExpandFrom(query, k) ==
    IF k > Len(STATE_MAP) THEN query
    ELSE IF EndsWith(query, " " \o STATE_MAP[k][1])
         THEN ReplaceFirst(query, " " \o STATE_MAP[k][1], " " \o STATE_MAP[k][2])
         ELSE ExpandFrom(query, k + 1)

ExpandState(query) == ExpandFrom(query, 1)

(***************************************************************************)
(* Bounds of the model                                                     *)
(***************************************************************************)
\* Most listing pages of the site when the whole pipeline runs from scratch.
MaxPages == 1
\* Most listing pages of the site, and so most records of a persisted
\* collection, when one pass is examined on its own.
MaxProps == 2
\* Most words of a query string when geocodeAddress is examined on its own.
MaxWords == 3

(***************************************************************************)
(* The environment: the site's listing pages and the geocoding service     *)
(***************************************************************************)
\* What the extraction regexes find on one listing page: the og:title (or
\* <title>) text, og:image, og:description and the Location paragraph.
Page(title, image, description, location) ==
    [title |-> title, image |-> image, description |-> description,
     location |-> location]

Pages ==
    { Page(Str("The Meadows at Canton - GSH Real Estate"), Str("meadows.jpg"),
           Str("Homes at 123 Main St, Canton, MI today"), Null),
      Page(Str("The Meadows at Canton"), Null, Str("Lovely homes"), Null),
      Page(Null, Null, Null, Null),
      Page(Null, Null, Null, Str("Troy, MI")),
      Page(Str("Lansing Lofts"), Null, Null,
           Str("Lansing &#8211; Michigan")) }

\* uniqueLinks: the deduplicated portfolio links, one page behind each.
Sites(most) == UNION {[1..n -> Pages] : n \in 0..most}

Url(k) == "https://gshrealestate.com/portfolio/" \o ToString(k)

\* First result of the forward geocode service, lat and lon as strings; an
\* empty result list, a non-ok status or a network error give no result.
NoResult == [found |-> FALSE, lat |-> "", lon |-> ""]
Result(lat, lon) == [found |-> TRUE, lat |-> lat, lon |-> lon]

ForwardResponses ==
    { NoResult, Result("42.31", "-83.48"), Result("32.1", "-90.0"),
      Result("42.31", "n/a") }

\* data.address.postcode of the reverse geocode service; "" when the call
\* fails or the response carries no postcode.
ReverseResponses == {"", "48187"}

(***************************************************************************)
(* Constants of the source                                                 *)
(***************************************************************************)
SENTINEL == "Address Not Found"
RateLimitMs == 1000
PoliteDelayMs == 500
LatFloor == 41

(***************************************************************************)
(* State                                                                   *)
(***************************************************************************)
VARIABLES
    site,        \* the listing pages behind uniqueLinks
    propsFile,   \* properties.json
    finalFile,   \* properties_final.json
    pass,        \* the script running: "idle", "scrape", "fix" or "zip"
    pc,          \* where the running script is suspended
    properties,  \* the script's in-memory array
    i,           \* index of the property the loop is at
    scr,         \* scrape pass: locals of the iteration awaiting a geocode
    queries,     \* corrective pass: candidate queries of property i
    qi,          \* corrective pass: index of the next candidate
    selected,    \* corrective pass: indices whose needsUpdate was true
    resolved,    \* corrective pass: indices whose loop set found = true
    sinceReq,    \* ms since this run's previous geocode request, -1: none yet
    ev,          \* the geocode request the last step sent, if any
    done,        \* the last run that ended and how
    arg,         \* geocodeAddress examined alone: the query passed in
    out          \* geocodeAddress examined alone: the query it requests

vars == <<site, propsFile, finalFile, pass, pc, properties, i, scr, queries,
          qi, selected, resolved, sinceReq, ev, done, arg, out>>

\* A file: whether it exists, whether JSON.parse accepts its text, and the
\* array it then yields.
NoFile == [exists |-> FALSE, parses |-> FALSE, data |-> <<>>]
File(data) == [exists |-> TRUE, parses |-> TRUE, data |-> data]
\* A file whose text JSON.parse rejects with a SyntaxError.
Malformed == [exists |-> TRUE, parses |-> FALSE, data |-> <<>>]

NoScr == [title |-> Null, image |-> Null, description |-> Null,
          location |-> Null, outputAddress |-> "", geocodeQuery |-> Null]

NoEvent == [kind |-> "none", idx |-> 0, n |-> 0, query |-> "", gap |-> -1,
            outcome |-> "", lat |-> Null, lon |-> Null]

\* A request to a geocode service: which service, for which property, the
\* n-th of that property, the string sent and the time since the previous
\* request of the run; then what the caller did with the answer.
Event(kind, idx, n, query, gap, outcome, coords) ==
    [kind |-> kind, idx |-> idx, n |-> n, query |-> query, gap |-> gap,
     outcome |-> outcome, lat |-> coords.lat, lon |-> coords.lon]

\* The clock after a setTimeout of d ms (capped at the rate limit).
After(since, d) ==
    IF since = -1 THEN -1
    ELSE IF since + d > RateLimitMs THEN RateLimitMs ELSE since + d

\* JSON.stringify(properties) read back by JSON.parse.
Serialize(props) ==
    [k \in 1..Len(props) |->
        [title |-> JsonValue(props[k].title),
         url |-> props[k].url,
         image |-> JsonValue(props[k].image),
         description |-> JsonValue(props[k].description),
         address |-> props[k].address,
         location_field |-> JsonValue(props[k].location_field),
         lat |-> JsonValue(props[k].lat),
         lon |-> JsonValue(props[k].lon),
         zip_code |-> JsonValue(props[k].zip_code)]]

\* No script is running.
Idle ==
    /\ pass = "idle"
    /\ pc = "idle"
    /\ properties = <<>>
    /\ i = 0
    /\ scr = NoScr
    /\ queries = <<>>
    /\ qi = 0
    /\ selected = {}
    /\ resolved = {}
    /\ sinceReq = -1
    /\ ev = NoEvent
    /\ arg = ""
    /\ out = ""

\* Before the first run: neither file exists.
Init ==
    /\ site \in Sites(MaxPages)
    /\ propsFile = NoFile
    /\ finalFile = NoFile
    /\ Idle
    /\ done = [pass |-> "none", outcome |-> "none"]

\* A run ends: the script's memory is gone.
EndRun(outcome) ==
    /\ done' = [pass |-> pass, outcome |-> outcome]
    /\ pass' = "idle"
    /\ pc' = "idle"
    /\ properties' = <<>>
    /\ i' = 0
    /\ scr' = NoScr
    /\ queries' = <<>>
    /\ qi' = 0
    /\ sinceReq' = -1

(***************************************************************************)
(* scrape_and_geocode.js                                                   *)
(***************************************************************************)
\* title.replace(" - GSH Real Estate", "").replace(" &#8211; GSH Real Estate", "")
cleanTitle(title) ==
    IF Truthy(title)
    THEN Str(ReplaceFirst(ReplaceFirst(title.s, " - GSH Real Estate", ""),
                          " &#8211; GSH Real Estate", ""))
    ELSE title

\* The Location paragraph, else an address pattern in the description.
extractLocation(page) ==
    IF ~Truthy(page.location) /\ Truthy(page.description)
    THEN LET addrMatch == AddrMatch(page.description.s)
         IN  IF addrMatch.t = "null" THEN page.location ELSE addrMatch
    ELSE page.location

\* outputAddress after the location and clean-up steps.
outputAddressOf(location) ==
    LET chosen == IF Truthy(location) THEN location.s ELSE SENTINEL
    IN  IF chosen # SENTINEL THEN StripEntities(chosen) ELSE chosen

\* title.includes(" at ") is evaluated when no address was found: on a null
\* title it throws a TypeError nothing catches.
titleThrows(title, outputAddress) ==
    outputAddress = SENTINEL /\ title.t # "str"

\* geocodeQuery through its successive assignments: q1 after the location
\* step, q2 after the address clean-up or the " at " heuristic, q3 after the
\* final if/else chain, which assigns on every branch.
geocodeQueryOf(title, location, outputAddress) ==
    LET q0 == Str("")
        q1 == IF Truthy(location)
              THEN IF ~Includes(location.s, ",")
                   THEN Str(location.s \o ", USA") ELSE location
              ELSE q0
        q2 == IF outputAddress # SENTINEL THEN Str(outputAddress)
              ELSE IF Includes(title.s, " at ")
                   THEN Str(SplitSecond(title.s, " at ").s \o ", USA")
                   ELSE q1
        q3 == IF Truthy(title) /\ outputAddress # SENTINEL
              THEN Str(title.s \o ", " \o outputAddress)
              ELSE IF outputAddress # SENTINEL THEN Str(outputAddress)
              ELSE title
    IN  q3

\* What geocodeAddress returns on the service's answer:
\* { lat: parseFloat(data[0].lat), lon: parseFloat(data[0].lon) }, or
\* { lat: null, lon: null }.
parsedCoords(resp) ==
    IF resp.found
    THEN [lat |-> parseFloat(resp.lat), lon |-> parseFloat(resp.lon)]
    ELSE [lat |-> Null, lon |-> Null]

\* parsedCoords tabulated over the service's answers.
ResponseCoords == [resp \in ForwardResponses |-> parsedCoords(resp)]

coordsOf(resp) == ResponseCoords[resp]

NullCoords == [lat |-> Null, lon |-> Null]

\* The locals of one iteration once the page's fields are extracted.
localsOf(page) ==
    LET title == cleanTitle(page.title)
        location == extractLocation(page)
        outputAddress == outputAddressOf(location)
    IN  [title |-> title, image |-> page.image,
         description |-> page.description, location |-> location,
         outputAddress |-> outputAddress,
         geocodeQuery |-> geocodeQueryOf(title, location, outputAddress)]

\* The object of properties.push({...}) for link k.
recordOf(locals, k, coords) ==
    [title |-> locals.title, url |-> Url(k), image |-> locals.image,
     description |-> locals.description, address |-> locals.outputAddress,
     location_field |-> locals.location,
     lat |-> coords.lat, lon |-> coords.lon, zip_code |-> Undefined]

StartRun(name) ==
    /\ pass = "idle"
    /\ pass' = name
    /\ selected' = {}
    /\ resolved' = {}
    /\ ev' = NoEvent
    /\ sinceReq' = -1
    /\ scr' = NoScr
    /\ queries' = <<>>
    /\ qi' = 0

\* The main page is fetched and the links are found.
ScrapeStart ==
    /\ StartRun("scrape")
    /\ pc' = "page"
    /\ properties' = <<>>
    /\ i' = 1
    /\ UNCHANGED <<arg, out, site, propsFile, finalFile, done>>

\* fetchText(BASE_URL) returns null: the script returns at once.
ScrapeNoMainPage ==
    /\ pass = "idle"
    /\ done' = [pass |-> "scrape", outcome |-> "returned"]
    /\ selected' = {}
    /\ resolved' = {}
    /\ ev' = NoEvent
    /\ UNCHANGED <<arg, out, site, propsFile, finalFile, pass, pc,
                   properties, i, scr, queries, qi, sinceReq>>

\* fetchText(url) returns null: continue with the next link.
ScrapePageFails ==
    /\ pass = "scrape" /\ pc = "page" /\ i <= Len(site)
    /\ i' = i + 1
    /\ ev' = NoEvent
    /\ UNCHANGED <<arg, out, site, propsFile, finalFile, pass, pc,
                   properties, scr, queries, qi, selected, resolved,
                   sinceReq, done>>

\* The page is fetched and its fields extracted, up to the first await of
\* geocodeAddress (or, with an empty query, through the push and the polite
\* delay).
ScrapePage ==
    /\ pass = "scrape" /\ pc = "page" /\ i <= Len(site)
    /\ ~titleThrows(cleanTitle(site[i].title),
                    outputAddressOf(extractLocation(site[i])))
    /\ LET locals == localsOf(site[i])
       IN  /\ IF Truthy(locals.geocodeQuery)
              THEN /\ scr' = locals
                   /\ pc' = "geocode"
                   /\ UNCHANGED <<properties, i, sinceReq>>
              ELSE /\ properties' = Append(properties, recordOf(locals, i, NullCoords))
                   /\ i' = i + 1
                   /\ sinceReq' = After(sinceReq, PoliteDelayMs)
                   /\ UNCHANGED <<scr, pc>>
    /\ ev' = NoEvent
    /\ UNCHANGED <<arg, out, site, propsFile, finalFile, pass, queries, qi,
                   selected, resolved, done>>

\* The TypeError of title.includes rejects the script's promise: the run
\* ends without writing properties.json.
ScrapeThrows ==
    /\ pass = "scrape" /\ pc = "page" /\ i <= Len(site)
    /\ titleThrows(cleanTitle(site[i].title),
                   outputAddressOf(extractLocation(site[i])))
    /\ EndRun("TypeError")
    /\ ev' = NoEvent
    /\ UNCHANGED <<arg, out, site, propsFile, finalFile, selected, resolved>>

\* geocodeAddress(geocodeQuery): the 1 s delay, the request, the answer.
ScrapeGeocode ==
    /\ pass = "scrape" /\ pc = "geocode"
    /\ \E resp \in ForwardResponses :
         LET coords == coordsOf(resp)
             retry == ~Truthy(coords.lat) /\ Truthy(scr.location)
         IN  /\ ev' = Event("forward", i, 1, scr.geocodeQuery.s,
                            After(sinceReq, RateLimitMs),
                            IF retry THEN "nomatch" ELSE "stored", coords)
             /\ IF retry
                THEN /\ pc' = "retry"
                     /\ sinceReq' = 0
                     /\ UNCHANGED <<properties, i, scr>>
                ELSE /\ properties' = Append(properties, recordOf(scr, i, coords))
                     /\ i' = i + 1
                     /\ pc' = "page"
                     /\ scr' = NoScr
                     /\ sinceReq' = After(0, PoliteDelayMs)
    /\ UNCHANGED <<arg, out, site, propsFile, finalFile, pass, queries, qi,
                   selected, resolved, done>>

\* "Retrying geocode with location only...": geocodeAddress(location).
ScrapeRetry ==
    /\ pass = "scrape" /\ pc = "retry"
    /\ \E resp \in ForwardResponses :
         LET coords == coordsOf(resp)
         IN  /\ ev' = Event("forward", i, 2, scr.location.s,
                            After(sinceReq, RateLimitMs), "stored", coords)
             /\ properties' = Append(properties, recordOf(scr, i, coords))
    /\ i' = i + 1
    /\ pc' = "page"
    /\ scr' = NoScr
    /\ sinceReq' = After(0, PoliteDelayMs)
    /\ UNCHANGED <<arg, out, site, propsFile, finalFile, pass, queries, qi,
                   selected, resolved, done>>

\* fs.writeFileSync(OUTPUT_FILE, JSON.stringify(properties)) after the loop.
ScrapeWrite ==
    /\ pass = "scrape" /\ pc = "page" /\ i > Len(site)
    /\ propsFile' = File(Serialize(properties))
    /\ EndRun("written")
    /\ ev' = NoEvent
    /\ UNCHANGED <<arg, out, site, finalFile, selected, resolved>>

(***************************************************************************)
(* The corrective pass (INPUT_FILE properties.json, OUTPUT_FILE            *)
(* properties_final.json)                                                  *)
(***************************************************************************)
\* needsUpdate without the ", MI" test of the stored address.
needsUpdateAnyRegion(p) ==
    \/ p.lat.t = "null"
    \/ p.lon.t = "null"
    \/ p.lat.n < LatFloor * 100

\* if (p.lat === null || p.lon === null) ... else if (p.address.includes(", MI")
\* && p.lat < 41) ...
needsUpdate(p) ==
    \/ p.lat.t = "null"
    \/ p.lon.t = "null"
    \/ (Includes(p.address, ", MI") /\ p.lat.n < LatFloor * 100)

\* The candidate queries, in the order they are pushed.
queriesOf(p) ==
    LET byAddress ==
            IF p.address # "" /\ p.address # SENTINEL
            THEN <<p.address \o ", USA">> \o
                 (IF Truthy(p.title)
                  THEN <<p.title.s \o ", " \o p.address \o ", USA">>
                  ELSE <<>>)
            ELSE <<>>
        byTitle == IF Truthy(p.title) THEN <<p.title.s \o ", USA">> ELSE <<>>
    IN  byAddress \o byTitle

\* The string geocodeAddress puts in the request URL for query.
sentQuery(query) == ExpandState(query)

\* geocodeAddress of the corrective pass on the service's answer.
geocodeAddress(query, resp) ==
    IF query = "" THEN NullCoords ELSE coordsOf(resp)

\* if (q.includes("Michigan") && coords.lat < 41): the result is ignored.
isSuspicious(q, coords) ==
    coords.lat.n < LatFloor * 100 /\ Includes(q, "Michigan")

\* if (!fs.existsSync(INPUT_FILE)) return;
FixNoInput ==
    /\ pass = "idle"
    /\ ~propsFile.exists
    /\ done' = [pass |-> "fix", outcome |-> "returned"]
    /\ selected' = {}
    /\ resolved' = {}
    /\ ev' = NoEvent
    /\ UNCHANGED <<arg, out, site, propsFile, finalFile, pass, pc,
                   properties, i, scr, queries, qi, sinceReq>>

\* JSON.parse(raw) throws on a malformed INPUT_FILE: the run ends before the
\* loop.
FixParseError ==
    /\ pass = "idle"
    /\ propsFile.exists /\ ~propsFile.parses
    /\ done' = [pass |-> "fix", outcome |-> "SyntaxError"]
    /\ selected' = {}
    /\ resolved' = {}
    /\ ev' = NoEvent
    /\ UNCHANGED <<arg, out, site, propsFile, finalFile, pass, pc,
                   properties, i, scr, queries, qi, sinceReq>>

FixStart ==
    /\ StartRun("fix")
    /\ propsFile.exists /\ propsFile.parses
    /\ properties' = propsFile.data
    /\ i' = 1
    /\ pc' = "select"
    /\ UNCHANGED <<arg, out, site, propsFile, finalFile, done>>

\* A property that needs no update: the loop goes on.
FixSkip ==
    /\ pass = "fix" /\ pc = "select" /\ i <= Len(properties)
    /\ ~needsUpdate(properties[i])
    /\ i' = i + 1
    /\ ev' = NoEvent
    /\ UNCHANGED <<arg, out, site, propsFile, finalFile, pass, pc,
                   properties, scr, queries, qi, selected, resolved,
                   sinceReq, done>>

\* A property that needs an update: its queries are built; with none, it is
\* logged as failed at once.
FixSelect ==
    /\ pass = "fix" /\ pc = "select" /\ i <= Len(properties)
    /\ needsUpdate(properties[i])
    /\ IF queriesOf(properties[i]) = <<>>
       THEN /\ i' = i + 1
            /\ UNCHANGED <<pc, queries, qi>>
       ELSE /\ queries' = queriesOf(properties[i])
            /\ qi' = 1
            /\ pc' = "query"
            /\ UNCHANGED i
    /\ selected' = selected \cup {i}
    /\ ev' = NoEvent
    /\ UNCHANGED <<arg, out, site, propsFile, finalFile, pass, properties,
                   scr, resolved, sinceReq, done>>

\* The candidate loop moves to its next query, or ends without found.
NextCandidate ==
    IF qi < Len(queries)
    THEN /\ qi' = qi + 1
         /\ UNCHANGED <<pc, i, queries>>
    ELSE /\ pc' = "select"
         /\ i' = i + 1
         /\ queries' = <<>>
         /\ qi' = 0

\* FixNoMatch storing the coordinates before it tests them.
FixNoMatchStores ==
    /\ pass = "fix" /\ pc = "query"
    /\ \E resp \in ForwardResponses :
         LET coords == geocodeAddress(queries[qi], resp)
         IN  /\ ~Truthy(coords.lat)
             /\ ev' = Event("forward", i, qi, sentQuery(queries[qi]),
                            sinceReq, "nomatch", coords)
             /\ properties' = [properties EXCEPT ![i].lat = coords.lat,
                                                  ![i].lon = coords.lon]
    /\ sinceReq' = After(0, RateLimitMs)
    /\ NextCandidate
    /\ UNCHANGED <<arg, out, site, propsFile, finalFile, pass, scr, selected,
                   resolved, done>>

\* A candidate gets no usable latitude: wait 1 s, next candidate.
FixNoMatch ==
    /\ pass = "fix" /\ pc = "query"
    /\ LET sent == sentQuery(queries[qi])
       IN  \E resp \in ForwardResponses :
             LET coords == geocodeAddress(queries[qi], resp)
             IN  /\ ~Truthy(coords.lat)
                 /\ ev' = Event("forward", i, qi, sent, sinceReq, "nomatch",
                                coords)
    /\ sinceReq' = After(0, RateLimitMs)
    /\ NextCandidate
    /\ UNCHANGED <<arg, out, site, propsFile, finalFile, pass, properties,
                   scr, selected, resolved, done>>

\* A candidate's result fails the Michigan check: continue, with no delay.
FixReject ==
    /\ pass = "fix" /\ pc = "query"
    /\ LET sent == sentQuery(queries[qi])
       IN  \E resp \in ForwardResponses :
             LET coords == geocodeAddress(queries[qi], resp)
             IN  /\ Truthy(coords.lat)
                 /\ isSuspicious(queries[qi], coords)
                 /\ ev' = Event("forward", i, qi, sent, sinceReq, "reject",
                                coords)
    /\ sinceReq' = 0
    /\ NextCandidate
    /\ UNCHANGED <<arg, out, site, propsFile, finalFile, pass, properties,
                   scr, selected, resolved, done>>

\* FixAccept without the break: the loop goes on to the next candidate.
FixAcceptContinues ==
    /\ pass = "fix" /\ pc = "query"
    /\ LET sent == sentQuery(queries[qi])
       IN  \E resp \in ForwardResponses :
             LET coords == geocodeAddress(queries[qi], resp)
             IN  /\ Truthy(coords.lat)
                 /\ ~isSuspicious(queries[qi], coords)
                 /\ ev' = Event("forward", i, qi, sent, sinceReq, "accept",
                                coords)
                 /\ properties' = [properties EXCEPT ![i].lat = coords.lat,
                                                      ![i].lon = coords.lon]
    /\ resolved' = resolved \cup {i}
    /\ sinceReq' = 0
    /\ NextCandidate
    /\ UNCHANGED <<arg, out, site, propsFile, finalFile, pass, scr, selected,
                   done>>

\* FixAccept also storing the query that resolved the property as its
\* address.
FixAcceptStoresQuery ==
    /\ pass = "fix" /\ pc = "query"
    /\ LET sent == sentQuery(queries[qi])
       IN  \E resp \in ForwardResponses :
             LET coords == geocodeAddress(queries[qi], resp)
             IN  /\ Truthy(coords.lat)
                 /\ ~isSuspicious(queries[qi], coords)
                 /\ ev' = Event("forward", i, qi, sent, sinceReq, "accept",
                                coords)
                 /\ properties' = [properties EXCEPT ![i].lat = coords.lat,
                                                      ![i].lon = coords.lon,
                                                      ![i].address = sent]
    /\ resolved' = resolved \cup {i}
    /\ sinceReq' = 0
    /\ pc' = "select"
    /\ i' = i + 1
    /\ queries' = <<>>
    /\ qi' = 0
    /\ UNCHANGED <<arg, out, site, propsFile, finalFile, pass, scr, selected,
                   done>>

\* A candidate's result is taken: p.lat, p.lon are set and the loop breaks.
FixAccept ==
    /\ pass = "fix" /\ pc = "query"
    /\ LET sent == sentQuery(queries[qi])
       IN  \E resp \in ForwardResponses :
             LET coords == geocodeAddress(queries[qi], resp)
             IN  /\ Truthy(coords.lat)
                 /\ ~isSuspicious(queries[qi], coords)
                 /\ ev' = Event("forward", i, qi, sent, sinceReq, "accept",
                                coords)
                 /\ properties' = [properties EXCEPT ![i].lat = coords.lat,
                                                      ![i].lon = coords.lon]
    /\ resolved' = resolved \cup {i}
    /\ sinceReq' = 0
    /\ pc' = "select"
    /\ i' = i + 1
    /\ queries' = <<>>
    /\ qi' = 0
    /\ UNCHANGED <<arg, out, site, propsFile, finalFile, pass, scr, selected,
                   done>>

FixWrite ==
    /\ pass = "fix" /\ pc = "select" /\ i > Len(properties)
    /\ finalFile' = File(Serialize(properties))
    /\ EndRun("written")
    /\ ev' = NoEvent
    /\ UNCHANGED <<arg, out, site, propsFile, selected, resolved>>

(***************************************************************************)
(* add_zipcodes.js                                                         *)
(***************************************************************************)
\* The postcode of the answer, or null.
reverseGeocode(lat, lon, resp) ==
    IF ~Truthy(lat) \/ ~Truthy(lon) THEN Null
    ELSE IF resp # "" THEN Str(resp) ELSE Null

\* wantsZip without the test of an existing zip_code.
wantsZipAgain(p) == Truthy(p.lat) /\ Truthy(p.lon)

\* if (!p.zip_code && p.lat && p.lon)
wantsZip(p) == ~Truthy(p.zip_code) /\ Truthy(p.lat) /\ Truthy(p.lon)

\* fs.readFileSync(INPUT_FILE) throws when the file is missing.
ZipNoInput ==
    /\ pass = "idle"
    /\ ~finalFile.exists
    /\ done' = [pass |-> "zip", outcome |-> "ENOENT"]
    /\ selected' = {}
    /\ resolved' = {}
    /\ ev' = NoEvent
    /\ UNCHANGED <<arg, out, site, propsFile, finalFile, pass, pc,
                   properties, i, scr, queries, qi, sinceReq>>

\* JSON.parse(raw) throws on a malformed INPUT_FILE: the run ends before the
\* loop.
ZipParseError ==
    /\ pass = "idle"
    /\ finalFile.exists /\ ~finalFile.parses
    /\ done' = [pass |-> "zip", outcome |-> "SyntaxError"]
    /\ selected' = {}
    /\ resolved' = {}
    /\ ev' = NoEvent
    /\ UNCHANGED <<arg, out, site, propsFile, finalFile, pass, pc,
                   properties, i, scr, queries, qi, sinceReq>>

ZipStart ==
    /\ StartRun("zip")
    /\ finalFile.exists /\ finalFile.parses
    /\ properties' = finalFile.data
    /\ i' = 1
    /\ pc' = "zip"
    /\ UNCHANGED <<arg, out, site, propsFile, finalFile, done>>

ZipSkip ==
    /\ pass = "zip" /\ pc = "zip" /\ i <= Len(properties)
    /\ ~wantsZip(properties[i])
    /\ i' = i + 1
    /\ ev' = NoEvent
    /\ UNCHANGED <<arg, out, site, propsFile, finalFile, pass, pc,
                   properties, scr, queries, qi, selected, resolved,
                   sinceReq, done>>

\* ZipLookup putting the postal code in front of the address.
ZipLookupPrepends ==
    /\ pass = "zip" /\ pc = "zip" /\ i <= Len(properties)
    /\ wantsZip(properties[i])
    /\ \E resp \in ReverseResponses :
         LET p == properties[i]
             zip == reverseGeocode(p.lat, p.lon, resp)
         IN  /\ ev' = Event("reverse", i, 1, "", sinceReq,
                            IF Truthy(zip) THEN "found" ELSE "nozip",
                            [lat |-> p.lat, lon |-> p.lon])
             /\ properties' =
                  IF Truthy(zip)
                  THEN [properties EXCEPT
                          ![i].zip_code = zip,
                          ![i].address = zip.s \o " " \o p.address]
                  ELSE properties
    /\ sinceReq' = After(0, RateLimitMs)
    /\ i' = i + 1
    /\ UNCHANGED <<arg, out, site, propsFile, finalFile, pass, pc, scr,
                   queries, qi, selected, resolved, done>>

\* ZipLookup saving the collection after every lookup.
ZipLookupFlushes ==
    /\ pass = "zip" /\ pc = "zip" /\ i <= Len(properties)
    /\ wantsZip(properties[i])
    /\ \E resp \in ReverseResponses :
         LET p == properties[i]
             zip == reverseGeocode(p.lat, p.lon, resp)
         IN  /\ ev' = Event("reverse", i, 1, "", sinceReq,
                            IF Truthy(zip) THEN "found" ELSE "nozip",
                            [lat |-> p.lat, lon |-> p.lon])
             /\ properties' =
                  IF Truthy(zip)
                  THEN [properties EXCEPT
                          ![i].zip_code = zip,
                          ![i].address = p.address \o " " \o zip.s]
                  ELSE properties
    /\ finalFile' = File(Serialize(properties'))
    /\ sinceReq' = After(0, RateLimitMs)
    /\ i' = i + 1
    /\ UNCHANGED <<arg, out, site, propsFile, pass, pc, scr,
                   queries, qi, selected, resolved, done>>

\* One reverse lookup, the update on success, then the 1 s delay.
ZipLookup ==
    /\ pass = "zip" /\ pc = "zip" /\ i <= Len(properties)
    /\ wantsZip(properties[i])
    /\ \E resp \in ReverseResponses :
         LET p == properties[i]
             zip == reverseGeocode(p.lat, p.lon, resp)
         IN  /\ ev' = Event("reverse", i, 1, "", sinceReq,
                            IF Truthy(zip) THEN "found" ELSE "nozip",
                            [lat |-> p.lat, lon |-> p.lon])
             /\ properties' =
                  IF Truthy(zip)
                  THEN [properties EXCEPT
                          ![i].zip_code = zip,
                          ![i].address = p.address \o " " \o zip.s]
                  ELSE properties
    /\ sinceReq' = After(0, RateLimitMs)
    /\ i' = i + 1
    /\ UNCHANGED <<arg, out, site, propsFile, finalFile, pass, pc, scr,
                   queries, qi, selected, resolved, done>>

ZipWrite ==
    /\ pass = "zip" /\ pc = "zip" /\ i > Len(properties)
    /\ finalFile' = File(Serialize(properties))
    /\ EndRun("written")
    /\ ev' = NoEvent
    /\ UNCHANGED <<arg, out, site, propsFile, selected, resolved>>

(***************************************************************************)
(* Specifications                                                          *)
(***************************************************************************)
NextScrape ==
    \/ ScrapeStart \/ ScrapeNoMainPage \/ ScrapePageFails \/ ScrapePage
    \/ ScrapeThrows \/ ScrapeGeocode \/ ScrapeRetry \/ ScrapeWrite

NextFix ==
    \/ FixStart \/ FixSkip \/ FixSelect \/ FixNoMatch \/ FixReject
    \/ FixAccept \/ FixWrite

NextZip == ZipStart \/ ZipSkip \/ ZipLookup \/ ZipWrite

\* The pipeline from scratch: any script may be run when none is running.
Next == NextScrape \/ FixNoInput \/ NextFix \/ ZipNoInput \/ NextZip

Spec == Init /\ [][Next]_vars

\* The scrape pass alone, run any number of times on one site.
InitScrape ==
    /\ site \in Sites(MaxProps)
    /\ propsFile = NoFile
    /\ finalFile = NoFile
    /\ Idle
    /\ done = [pass |-> "none", outcome |-> "none"]

\* One run of the scrape pass, the first script run on the site.
ScrapeOnce ==
    \/ (done.pass = "none" /\ (ScrapeStart \/ ScrapeNoMainPage))
    \/ ScrapePageFails \/ ScrapePage \/ ScrapeThrows \/ ScrapeGeocode
    \/ ScrapeRetry \/ ScrapeWrite

SpecScrape == InitScrape /\ [][ScrapeOnce]_vars

\* The coordinates the scrape pass can leave in a record of properties.json.
ScrapedCoords ==
    {[lat |-> JsonValue(coordsOf(r).lat), lon |-> JsonValue(coordsOf(r).lon)] :
        r \in ForwardResponses}

noThrow(page) ==
    ~titleThrows(cleanTitle(page.title),
                 outputAddressOf(extractLocation(page)))

\* The collections the scrape pass writes for a site whose pages all load.
ScrapeOutputs(pages) ==
    {[k \in 1..Len(pages) |-> recordOf(localsOf(pages[k]), k, cs[k])] :
        cs \in [1..Len(pages) -> ScrapedCoords]}

\* One run of the corrective pass on a properties.json that the scrape pass
\* wrote.
InitFix ==
    /\ site \in {st \in Sites(MaxProps) : \A k \in 1..Len(st) : noThrow(st[k])}
    /\ propsFile \in {File(data) : data \in ScrapeOutputs(site)}
    /\ finalFile = NoFile
    /\ Idle
    /\ done = [pass |-> "scrape", outcome |-> "written"]

FixOnce ==
    \/ (done.pass = "scrape" /\ FixStart)
    \/ FixSkip \/ FixSelect \/ FixNoMatch \/ FixReject \/ FixAccept
    \/ FixWrite

SpecFix == InitFix /\ [][FixOnce]_vars

\* The coordinates the corrective pass can leave in record p.
FixedCoords(p) ==
    {[lat |-> p.lat, lon |-> p.lon]} \cup
    {[lat |-> JsonValue(coordsOf(r).lat), lon |-> JsonValue(coordsOf(r).lon)] :
        r \in {x \in ForwardResponses :
                 /\ needsUpdate(p)
                 /\ Truthy(coordsOf(x).lat)
                 /\ \E n \in 1..Len(queriesOf(p)) :
                        ~isSuspicious(queriesOf(p)[n], coordsOf(x))}}

\* The collections the corrective pass writes from the collection data.
FixOutputs(data) ==
    {[k \in 1..Len(data) |->
         [data[k] EXCEPT !.lat = cs[k].lat, !.lon = cs[k].lon]] :
        cs \in {c \in [1..Len(data) -> ScrapedCoords] :
                  \A k \in 1..Len(data) : c[k] \in FixedCoords(data[k])}}

\* The postal pass alone, run any number of times on a
\* properties_final.json that the corrective pass wrote (from a
\* properties.json in which no record had been geocoded).
InitZip ==
    /\ site \in {st \in Sites(MaxProps) : \A k \in 1..Len(st) : noThrow(st[k])}
    /\ propsFile = File([k \in 1..Len(site) |->
                            recordOf(localsOf(site[k]), k, NullCoords)])
    /\ finalFile \in {File(data) : data \in FixOutputs(propsFile.data)}
    /\ Idle
    /\ done = [pass |-> "fix", outcome |-> "written"]

SpecZip == InitZip /\ [][NextZip]_vars

\* The corrective and postal passes run any number of times, in any order,
\* on a properties.json that the scrape pass wrote.
InitEnrich ==
    /\ site \in {st \in Sites(MaxPages) : \A k \in 1..Len(st) : noThrow(st[k])}
    /\ propsFile \in {File(data) : data \in ScrapeOutputs(site)}
    /\ finalFile = NoFile
    /\ Idle
    /\ done = [pass |-> "scrape", outcome |-> "written"]

SpecEnrich == InitEnrich /\ [][NextFix \/ NextZip]_vars

\* One run of the corrective pass and then one run of the postal pass, on a
\* properties.json that the scrape pass wrote.
FixThenZip ==
    \/ FixOnce
    \/ (done = [pass |-> "fix", outcome |-> "written"] /\ ZipStart)
    \/ ZipSkip \/ ZipLookup \/ ZipWrite

SpecFixThenZip == InitFix /\ [][FixThenZip]_vars

\* The process of a running script ends at one of its awaits, before its
\* writeFileSync (it is killed, or a rejection goes unhandled).
Crash ==
    /\ pass # "idle"
    /\ EndRun("killed")
    /\ UNCHANGED <<arg, out, site, propsFile, finalFile, selected, resolved,
                   ev>>

\* The properties.json a run may find: none, one that does not parse, or
\* one an earlier scrape of the site wrote.
PriorProps(st) ==
    {NoFile, Malformed} \cup
    (IF \A k \in 1..Len(st) : noThrow(st[k])
     THEN {File(data) : data \in ScrapeOutputs(st)}
     ELSE {})

\* The properties_final.json a run may find: none, one that does not parse,
\* or one an earlier corrective run wrote from props.
PriorFinal(props) ==
    {NoFile, Malformed} \cup
    (IF props.parses THEN {File(data) : data \in FixOutputs(props.data)}
     ELSE {})

InitAnyRun ==
    /\ site \in Sites(MaxPages)
    /\ propsFile \in PriorProps(site)
    /\ finalFile \in PriorFinal(propsFile)
    /\ Idle
    /\ done = [pass |-> "none", outcome |-> "none"]

\* One run of any of the three scripts, which may end in a crash.
AnyRunOnce ==
    \/ /\ done.pass = "none"
       /\ \/ ScrapeStart \/ ScrapeNoMainPage
          \/ FixNoInput \/ FixParseError \/ FixStart
          \/ ZipNoInput \/ ZipParseError \/ ZipStart
    \/ ScrapePageFails \/ ScrapePage \/ ScrapeThrows \/ ScrapeGeocode
    \/ ScrapeRetry \/ ScrapeWrite
    \/ FixSkip \/ FixSelect \/ FixNoMatch \/ FixReject \/ FixAccept \/ FixWrite
    \/ ZipSkip \/ ZipLookup \/ ZipWrite
    \/ Crash

SpecAnyRun == InitAnyRun /\ [][AnyRunOnce]_vars

\* geocodeAddress of the corrective pass examined alone, on query strings of
\* up to MaxWords words.
Words == <<"12", "MI", "Rd,", "Canton,", "OH", "USA">>

RECURSIVE JoinWords(_, _)
JoinWords(ws, n) ==
    IF n = 1 THEN Words[ws[1]]
    ELSE JoinWords(ws, n - 1) \o " " \o Words[ws[n]]

ExpandInputs ==
    UNION {{JoinWords(ws, n) : ws \in [1..n -> 1..Len(Words)]} :
             n \in 1..MaxWords}

InitExpand ==
    /\ site = <<>>
    /\ propsFile = NoFile
    /\ finalFile = NoFile
    /\ pass = "idle"
    /\ pc = "idle"
    /\ properties = <<>>
    /\ i = 0
    /\ scr = NoScr
    /\ queries = <<>>
    /\ qi = 0
    /\ selected = {}
    /\ resolved = {}
    /\ sinceReq = -1
    /\ ev = NoEvent
    /\ done = [pass |-> "none", outcome |-> "none"]
    /\ arg \in ExpandInputs
    /\ out = ""

\* geocodeAddress(arg) up to the request: out is the string sent.
ExpandQuery ==
    /\ arg # "" /\ out = ""
    /\ out' = sentQuery(arg)
    /\ UNCHANGED <<site, propsFile, finalFile, pass, pc, properties, i, scr,
                   queries, qi, selected, resolved, sinceReq, ev, done, arg>>

SpecExpand == InitExpand /\ [][ExpandQuery]_vars

(***************************************************************************)
(* Properties                                                              *)
(***************************************************************************)
Floor == LatFloor * 100

\* The record the corrective pass read for index k, and the one in memory.
Entry(k) == propsFile.data[k]

\* C1 (SpecFix): in the corrective pass, for a property whose stored
\* address contains ", MI", a forward-geocode result with latitude below 41
\* is rejected and never written to the record, and a result with latitude
\* at or above 41 is accepted.
C1_MichiganFloorEnforced ==
    (/\ pass = "fix"
     /\ ev.kind = "forward"
     /\ Truthy(ev.lat)
     /\ Includes(Entry(ev.idx).address, ", MI")) =>
        IF ev.lat.n < Floor
        THEN /\ ev.outcome = "reject"
             /\ properties[ev.idx].lat = Entry(ev.idx).lat
             /\ properties[ev.idx].lon = Entry(ev.idx).lon
        ELSE ev.outcome = "accept"

\* C2 (Spec): once a record of properties_final.json has a zip_code, every
\* later step leaves that record in the file with the same zip_code.
C2_ZipNeverCleared ==
    [][\A k \in 1..Len(finalFile.data) :
          Truthy(finalFile.data[k].zip_code) =>
              \E j \in 1..Len(finalFile'.data) :
                  /\ finalFile'.data[j].url = finalFile.data[k].url
                  /\ finalFile'.data[j].zip_code = finalFile.data[k].zip_code]_vars

SelectionRule(p) ==
    \/ p.lat = Null \/ p.lon = Null
    \/ /\ p.lat # Null /\ p.lon # Null
       /\ Includes(p.address, ", MI")
       /\ p.lat.n < Floor

\* C4 (SpecFix): the corrective pass selects a property if and only if its
\* coordinates are absent, or present with ", MI" in the stored address and
\* a stored latitude below 41; for a property not selected no forward
\* geocode request is sent and lat and lon stay as they were.
C4_SelectedIffRule ==
    pass = "fix" =>
        \A k \in 1..Len(properties) :
            /\ k \in selected => SelectionRule(Entry(k))
            /\ (k < i /\ SelectionRule(Entry(k))) => k \in selected
            /\ ~SelectionRule(Entry(k)) =>
                 /\ properties[k].lat = Entry(k).lat
                 /\ properties[k].lon = Entry(k).lon
                 /\ ev.kind = "forward" => ev.idx # k

\* Of two ", MI" records the one stored at latitude 32.1 was selected and
\* the one stored at 42.31 was passed over.
C4_Witness ==
    /\ pass = "fix"
    /\ \E k \in selected : \E j \in (1..(i - 1)) \ selected :
         /\ Includes(Entry(k).address, ", MI")
         /\ Entry(k).lat = Num(3210)
         /\ Includes(Entry(j).address, ", MI")
         /\ Entry(j).lat = Num(4231)

\* C5 (SpecFix): every geocode request is sent at least 1 s after the
\* previous request of the same run.
C5_RequestsPaced ==
    ev.kind # "none" => (ev.gap = -1 \/ ev.gap >= RateLimitMs)

\* Whether the postal pass has nothing to look up for record p: it has a
\* postal code already, or lacks a usable coordinate.
Settled(p) == Truthy(p.zip_code) \/ ~Truthy(p.lat) \/ ~Truthy(p.lon)

\* The second of two postal runs in a row is under way.
SecondZipRun ==
    pass = "zip" /\ done = [pass |-> "zip", outcome |-> "written"]

\* No address carries its postal code appended twice, and a record with a
\* postal code gets no reverse-geocode request.
C6_NoDuplicateNoRequest ==
    /\ pass = "zip" =>
         /\ \A k \in 1..Len(properties) :
              Truthy(properties[k].zip_code) =>
                  properties[k].address =
                      Entry(k).address \o " " \o properties[k].zip_code.s
         /\ ev.kind = "reverse" => ~Truthy(finalFile.data[ev.idx].zip_code)
    /\ finalFile.exists =>
         \A k \in 1..Len(finalFile.data) :
            Truthy(finalFile.data[k].zip_code) =>
                finalFile.data[k].address =
                    Entry(k).address \o " " \o finalFile.data[k].zip_code.s

\* C6 as stated (SpecZip): in the second of two postal runs in a row no
\* field of any record changes, no address carries its postal code twice,
\* and a record with a postal code gets no reverse-geocode request.
C6_SecondRunChangesNothing ==
    /\ SecondZipRun =>
         \A k \in 1..Len(properties) : properties[k] = finalFile.data[k]
    /\ C6_NoDuplicateNoRequest

\* C6 amended (SpecZip): in the second of two postal runs in a row no field
\* changes of any record that had a postal code, or lacked a usable
\* coordinate, after the first run; no address carries its postal code
\* twice, and a record with a postal code gets no reverse-geocode request.
C6_SecondRunKeepsSettled ==
    /\ SecondZipRun =>
         \A k \in 1..Len(properties) :
            Settled(finalFile.data[k]) => properties[k] = finalFile.data[k]
    /\ C6_NoDuplicateNoRequest

\* In a second run, a record that had its postal code was passed over and a
\* record whose first lookup had failed got one.
C6_Witness ==
    /\ SecondZipRun
    /\ \E k \in 1..(i - 1) : Truthy(finalFile.data[k].zip_code)
    /\ \E j \in 1..(i - 1) :
         /\ ~Truthy(finalFile.data[j].zip_code)
         /\ Truthy(properties[j].zip_code)

\* C7 (SpecScrape): a failure confined to one property never aborts the
\* run: a run that got its input ends by writing the collection.
C7_FailureIsolated ==
    (pass = "idle" /\ done.pass # "none") =>
        done.outcome \in {"written", "returned", "ENOENT"}

\* C8 (SpecScrape): in every persisted record lat and lon are both numbers
\* or both null.
C8_CoordinatesWhole ==
    /\ \A k \in 1..Len(propsFile.data) :
         (propsFile.data[k].lat = Null) <=> (propsFile.data[k].lon = Null)
    /\ \A k \in 1..Len(finalFile.data) :
         (finalFile.data[k].lat = Null) <=> (finalFile.data[k].lon = Null)

\* C9 (SpecFix): for a property with a title and a location string, the
\* first query a pass sends to the forward geocode service is
\* title + ", " + location.
C9_FirstQueryTitleLocation ==
    /\ (pass = "fix" /\ ev.kind = "forward" /\ ev.n = 1) =>
         LET p == properties[ev.idx]
         IN  (Truthy(p.title) /\ Truthy(p.location_field)) =>
                 ev.query = p.title.s \o ", " \o p.location_field.s
    /\ (pass = "scrape" /\ ev.kind = "forward" /\ ev.n = 1) =>
         LET p == localsOf(site[ev.idx])
         IN  (Truthy(p.title) /\ Truthy(p.location)) =>
                 ev.query = p.title.s \o ", " \o p.location.s

\* The mapped abbreviation query ends in, after a space: its index in
\* STATE_MAP, or 0.
FinalAbbr(query) ==
    LET ks == {k \in 1..Len(STATE_MAP) : EndsWith(query, " " \o STATE_MAP[k][1])}
    IN  IF ks = {} THEN 0 ELSE CHOOSE k \in ks : TRUE

\* The query with only its final abbreviation expanded.
FinalExpanded(query) ==
    LET k == FinalAbbr(query)
    IN  IF k = 0 THEN query
        ELSE SubSeq(query, 1, Len(query) - Len(STATE_MAP[k][1]))
                 \o STATE_MAP[k][2]

\* C10 (SpecExpand): geocodeAddress changes the query only by replacing a
\* mapped abbreviation at the end of the string, after a space, with its
\* full name; earlier occurrences stay and any other query is unchanged.
C10_OnlyFinalAbbreviationExpanded ==
    out # "" => out = FinalExpanded(arg)

\* The candidate query of the corrective pass behind the request ev, as the
\* loop passed it to geocodeAddress.
Candidate == queriesOf(Entry(ev.idx))[ev.n]

\* C11 (SpecFix): for a property whose location string ends in " MI", every
\* query sent to the forward geocode service that carries that location has
\* "MI" expanded to "Michigan".
C11_MichiganExpandedWhenSent ==
    (/\ pass = "fix"
     /\ ev.kind = "forward"
     /\ Truthy(Entry(ev.idx).location_field)
     /\ EndsWith(Entry(ev.idx).location_field.s, " MI")
     /\ Includes(Candidate, Entry(ev.idx).location_field.s)) =>
        /\ Includes(ev.query, " Michigan")
        /\ ~Includes(ev.query, " MI,")
        /\ ~EndsWith(ev.query, " MI")

\* The strings the initial pass sends for link k: geocodeQuery, then the
\* location when the first answer had no usable latitude.
ScrapeFirstQuery(k) == localsOf(site[k]).geocodeQuery

\* C12 (SpecScrape): the candidate queries a pass sends for a property are
\* non-empty strings, no string is sent twice, and the sequence ends with a
\* coarse fallback query (the title with ", USA" in the corrective pass).
C12_QueriesDistinctNonEmpty ==
    /\ (pass = "scrape" /\ ev.kind = "forward") =>
         /\ ev.query # ""
         /\ ev.n = 2 => ev.query # ScrapeFirstQuery(ev.idx).s
    /\ (pass = "fix" /\ pc = "query") =>
         /\ \A m \in 1..Len(queries) :
              /\ queries[m] # ""
              /\ \A n \in 1..Len(queries) : queries[m] = queries[n] => m = n
         /\ Truthy(properties[i].title) =>
              queries[Len(queries)] = properties[i].title.s \o ", USA"

\* C14 (SpecScrape): in the initial pass, for a property with no location
\* string whose title contains " at ", the place name after " at " with the
\* suffix ", USA" is the query sent to the forward geocode service.
C14_TitlePlaceNameSent ==
    (/\ pass = "scrape"
     /\ ev.kind = "forward"
     /\ ~Truthy(localsOf(site[ev.idx]).location)
     /\ Truthy(localsOf(site[ev.idx]).title)
     /\ Includes(localsOf(site[ev.idx]).title.s, " at ")) =>
        ev.query =
            SplitSecond(localsOf(site[ev.idx]).title.s, " at ").s \o ", USA"

\* C13 (SpecZip): in the postal pass a reverse lookup is made for a property
\* with coordinates and no postal code; when it returns a code, zip_code is
\* that code and address is the old address, a space and the code; when it
\* returns none, address and zip_code are as they were.
C13_ZipSetOrUntouched ==
    (pass = "zip" /\ ev.kind = "reverse") =>
        LET before == finalFile.data[ev.idx]
            after == properties[ev.idx]
        IN  /\ wantsZip(before)
            /\ ev.outcome \in {"found", "nozip"}
            /\ ev.outcome = "found" =>
                 /\ after.zip_code \in {Str(z) : z \in ReverseResponses \ {""}}
                 /\ after.address = before.address \o " " \o after.zip_code.s
            /\ ev.outcome = "nozip" =>
                 /\ after.zip_code = before.zip_code
                 /\ after.address = before.address

\* A lookup has just returned a code, after the lookup for an earlier
\* property returned none.
C13_Witness ==
    /\ pass = "zip" /\ ev.kind = "reverse" /\ ev.outcome = "found"
    /\ properties[ev.idx].zip_code = Str("48187")
    /\ \E k \in 1..(ev.idx - 1) :
         /\ wantsZip(finalFile.data[k])
         /\ properties[k] = finalFile.data[k]

\* C15 (SpecFix): the corrective pass sends the candidates of a property in
\* list order, each as geocodeAddress expands it, and the first accepted
\* result ends the attempt: once a property is resolved no further candidate
\* of it is sent and its lat and lon are not written again in the pass.
C15_FirstAcceptedEnds ==
    [][(pass = "fix" /\ pass' = "fix") =>
         /\ ev'.kind = "forward" =>
              /\ ev'.idx = i
              /\ ev'.idx \notin resolved
              /\ ev'.n = (IF ev.kind = "forward" /\ ev.idx = ev'.idx
                          THEN ev.n + 1 ELSE 1)
              /\ ev'.n <= Len(queriesOf(Entry(ev'.idx)))
              /\ ev'.query = sentQuery(queriesOf(Entry(ev'.idx))[ev'.n])
              /\ (ev'.outcome = "accept") <=> (ev'.idx \in resolved')
         /\ \A k \in resolved :
              /\ k \in resolved'
              /\ properties'[k].lat = properties[k].lat
              /\ properties'[k].lon = properties[k].lon]_vars

\* The second of three candidates was accepted after the first had no
\* match, and the loop has moved to the next property.
C15_Witness ==
    /\ pass = "fix"
    /\ ev.kind = "forward" /\ ev.outcome = "accept" /\ ev.n = 2
    /\ Len(queriesOf(Entry(ev.idx))) = 3
    /\ ev.idx \in resolved
    /\ i = ev.idx + 1
    /\ properties[ev.idx].lat = ev.lat

\* C17 (SpecFixThenZip): the collection a pass writes has the records of the
\* collection it read, in the same order; the corrective pass changes only
\* lat and lon of a record, the postal pass only zip_code and address.
C17_PassesKeepOtherFields ==
    [][finalFile' # finalFile =>
         LET input == IF pass = "fix" THEN propsFile.data ELSE finalFile.data
             output == finalFile'.data
         IN  /\ pass \in {"fix", "zip"}
             /\ Len(output) = Len(input)
             /\ \A k \in 1..Len(input) :
                  output[k] =
                      IF pass = "fix"
                      THEN [input[k] EXCEPT !.lat = output[k].lat,
                                            !.lon = output[k].lon]
                      ELSE [input[k] EXCEPT !.zip_code = output[k].zip_code,
                                            !.address = output[k].address]]_vars

\* Both passes have written a collection of two different records, one of
\* which the corrective pass resolved and the postal pass gave a code.
C17_Witness ==
    /\ done = [pass |-> "zip", outcome |-> "written"]
    /\ Len(finalFile.data) = 2
    /\ finalFile.data[1].title # finalFile.data[2].title
    /\ \E k \in 1..2 :
         /\ propsFile.data[k].lat = Null
         /\ finalFile.data[k].lat # Null
         /\ Truthy(finalFile.data[k].zip_code)

\* C18 (SpecEnrich): over any sequence of corrective and postal runs, every
\* record of properties_final.json that has a zip_code has an address ending
\* in a space and that zip_code, the code appended once to the address the
\* scrape pass stored.
C18_ZipAppendedOnce ==
    finalFile.exists =>
        \A k \in 1..Len(finalFile.data) :
            LET p == finalFile.data[k]
            IN  Truthy(p.zip_code) =>
                    /\ EndsWith(p.address, " " \o p.zip_code.s)
                    /\ p.address = propsFile.data[k].address \o " " \o p.zip_code.s

\* A corrective run is under way on top of a properties_final.json in which
\* a postal run has set a code, and has resolved that record again.
C18_Witness ==
    /\ pass = "fix"
    /\ finalFile.exists
    /\ \E k \in resolved :
         /\ Truthy(finalFile.data[k].zip_code)
         /\ properties[k].lat # finalFile.data[k].lat

\* The collection the running script loops over: the links of the site in
\* the initial pass, the parsed array in the other two.
LoopLength == IF pass = "scrape" THEN Len(site) ELSE Len(properties)

\* C16 (SpecAnyRun): a persisted file changes only in the step that ends a
\* run as written, after the loop has passed every record, and then the
\* pass's own output file receives the whole collection; a run that crashes
\* or throws leaves both files as they were; the corrective and postal
\* passes send no request and never enter their loop when their input file
\* does not parse.
C16_WholeWriteAtEnd ==
    [][/\ (propsFile' # propsFile \/ finalFile' # finalFile) =>
            /\ pass \in {"scrape", "fix", "zip"}
            /\ pass' = "idle"
            /\ done' = [pass |-> pass, outcome |-> "written"]
            /\ i > LoopLength
            /\ IF pass = "scrape"
               THEN /\ propsFile' = File(Serialize(properties))
                    /\ finalFile' = finalFile
               ELSE /\ finalFile' = File(Serialize(properties))
                    /\ propsFile' = propsFile
       /\ (done' # done /\ done'.outcome # "written") =>
            /\ propsFile' = propsFile
            /\ finalFile' = finalFile
       /\ pass' = "fix" => propsFile.parses
       /\ pass' = "zip" => finalFile.parses
       /\ (done'.outcome = "SyntaxError") =>
            /\ ev'.kind = "none"
            /\ pass = "idle" /\ pass' = "idle"]_vars

\* A postal run was killed after a lookup had found a code: the code is not
\* in properties_final.json, which is as the run found it.
C16_Witness ==
    /\ done = [pass |-> "zip", outcome |-> "killed"]
    /\ ev.kind = "reverse" /\ ev.outcome = "found"
    /\ finalFile.exists /\ finalFile.parses
    /\ ~Truthy(finalFile.data[ev.idx].zip_code)

====
